---- MODULE Spec2Model ----
(***************************************************************************)
(* Pikax: the id batch processor (gui/lib/pikax/api/models.py,             *)
(* BaseIDProcessor._general_processor) and the web client login cascade    *)
(* (pikax/api/webclient.py, WebAPIClient.__init__ and the clients it       *)
(* inherits from).                                                         *)
(*                                                                         *)
(* SpecProcessor runs one call of _general_processor: a thread pool whose  *)
(* workers run process_item, and the calling thread that iterates the      *)
(* results of imap_unordered.  SpecLogin runs one construction of          *)
(* WebAPIClient.                                                           *)
(***************************************************************************)
EXTENDS Integers, Sequences, FiniteSets, TLC

VARIABLES
    \* ---- _general_processor ----
    item_ids,        \* the argument item_ids
    outcome,         \* what cls(itemid) does for each occurrence of item_ids
    next_task,       \* position of the next task the pool hands to a worker
    worker,          \* each pool thread: what it is doing, on which position
    successes,       \* the shared list successes
    fails,           \* the shared list fails
    outq,            \* results of process_item the iterator has not yielded yet
    index,           \* number of results the for loop has consumed
    progress_calls,  \* the calls of util.print_progress, in order
    bpc,             \* the calling thread: "iterating", "returned", "raised"
    ret,             \* the value returned
    \* ---- WebAPIClient.__init__ ----
    lpc,             \* where the construction is
    cookies,         \* self._session.cookies, a set of <<name, value>>
    file,            \* the file at self.cookies_file
    exc,             \* the exception the construction raised, or "none"
    inputs,          \* number of input() calls answered so far
    events           \* what the construction did, in order: <<strategy, what, arg>>

pvars == <<item_ids, outcome, next_task, worker, successes, fails, outq,
           index, progress_calls, bpc, ret>>

lvars == <<lpc, cookies, file, exc, inputs, events>>

vars == <<pvars, lvars>>

----------------------------------------------------------------------------
(* Bounds *)

MaxIds == 3
PoolSize == 2
MaxInputs == 6

ItemIds == {1, 2}
Workers == 1..PoolSize

\* cls(itemid) returns an artwork, raises ArtworkError, or raises the request
\* failure Artwork.config documents
Outcomes == {"ok", "ArtworkError", "ReqException"}

----------------------------------------------------------------------------
(* _general_processor *)

Artwork(artwork_id) == [id |-> artwork_id]

IdLists == UNION {[1..n -> ItemIds] : n \in 0..MaxIds}

\* a plausible slip: the artwork replaces the list instead of joining it
ProcessItemSuccesses_Overwrite(succ, itemid, out) ==
    IF out = "ok" THEN <<Artwork(itemid)>> ELSE succ

ProcessItemSuccesses(succ, itemid, out) ==
    IF out = "ok" THEN Append(succ, Artwork(itemid)) ELSE succ

\* a plausible slip: the id replaces the list instead of joining it
ProcessItemFails_Overwrite(fl, itemid, out) ==
    IF out = "ArtworkError" THEN <<itemid>> ELSE fl

ProcessItemFails(fl, itemid, out) ==
    IF out = "ArtworkError" THEN Append(fl, itemid) ELSE fl

\* a plausible slip: no except clause, ArtworkError leaves process_item too
ProcessItemRaises_Uncaught(out) == out # "ok"

\* the exceptions process_item does not catch leave it
ProcessItemRaises(out) == out \notin {"ok", "ArtworkError"}

\* a plausible slip: the count runs one ahead of the results consumed
PrintProgressArgs_Ahead(idx, total) == <<idx + 2, total>>

PrintProgressArgs(idx, total) == <<idx + 1, total>>

\* a plausible slip: the task just handed out stays at the head of the queue
NextTaskAfter_Same(n) == n

\* the pool's task queue: each task of imap_unordered is handed out once
NextTaskAfter(n) == n + 1

Idle == [st |-> "idle", pos |-> 0]

\* no client is being constructed while the processor runs
LoginNotStarted ==
    /\ lpc = "none"
    /\ cookies = {}
    /\ file = [exists |-> FALSE]
    /\ exc = "none"
    /\ inputs = 0
    /\ events = <<>>

\* no batch is being processed while the client is built
ProcessorNotStarted ==
    /\ item_ids = <<>>
    /\ outcome = <<>>
    /\ next_task = 1
    /\ worker = [w \in Workers |-> Idle]
    /\ successes = <<>>
    /\ fails = <<>>
    /\ outq = <<>>
    /\ index = 0
    /\ progress_calls = <<>>
    /\ bpc = "none"
    /\ ret = <<>>

InitProcessor ==
    /\ LoginNotStarted
    /\ item_ids \in IdLists
    /\ outcome \in [1..Len(item_ids) -> Outcomes]
    /\ next_task = 1
    /\ worker = [w \in Workers |-> Idle]
    /\ successes = <<>>
    /\ fails = <<>>
    /\ outq = <<>>
    /\ index = 0
    /\ progress_calls = <<>>
    /\ bpc = "iterating"
    /\ ret = <<>>

\* a pool thread takes the next task and starts process_item(itemid)
WorkerTake(w) ==
    /\ worker[w].st = "idle"
    /\ next_task <= Len(item_ids)
    /\ worker' = [worker EXCEPT ![w] = [st |-> "constructing", pos |-> next_task]]
    /\ next_task' = NextTaskAfter(next_task)
    /\ UNCHANGED lvars
    /\ UNCHANGED <<item_ids, outcome, successes, fails, outq, index,
                   progress_calls, bpc, ret>>

\* cls(itemid) ends; the artwork is appended to successes, or the id to fails
WorkerProcessItem(w) ==
    /\ worker[w].st = "constructing"
    /\ LET p == worker[w].pos
           out == outcome[p]
       IN /\ successes' = ProcessItemSuccesses(successes, item_ids[p], out)
          /\ fails' = ProcessItemFails(fails, item_ids[p], out)
          /\ worker' = [worker EXCEPT ![w] = [st |-> "finished", pos |-> p]]
    /\ UNCHANGED lvars
    /\ UNCHANGED <<item_ids, outcome, next_task, outq, index, progress_calls,
                   bpc, ret>>

\* the pool thread puts the result of process_item on the result queue
WorkerPutResult(w) ==
    /\ worker[w].st = "finished"
    /\ LET p == worker[w].pos
       IN outq' = Append(outq, [raised |-> ProcessItemRaises(outcome[p])])
    /\ worker' = [worker EXCEPT ![w] = Idle]
    /\ UNCHANGED lvars
    /\ UNCHANGED <<item_ids, outcome, next_task, successes, fails, index,
                   progress_calls, bpc, ret>>

\* the for loop takes the next result: print_progress, or the exception of
\* process_item raised again in the calling thread
MainNextResult ==
    /\ bpc = "iterating"
    /\ outq # <<>>
    /\ outq' = Tail(outq)
    /\ IF Head(outq).raised
       THEN /\ bpc' = "raised"
            /\ UNCHANGED <<index, progress_calls>>
       ELSE /\ index' = index + 1
            /\ progress_calls' =
                   Append(progress_calls, PrintProgressArgs(index, Len(item_ids)))
            /\ bpc' = bpc
    /\ UNCHANGED lvars
    /\ UNCHANGED <<item_ids, outcome, next_task, worker, successes, fails, ret>>

\* the iterator is exhausted: return successes, fails
MainReturn ==
    /\ bpc = "iterating"
    /\ index = Len(item_ids)
    /\ bpc' = "returned"
    /\ ret' = <<successes, fails>>
    /\ UNCHANGED lvars
    /\ UNCHANGED <<item_ids, outcome, next_task, worker, successes, fails,
                   outq, index, progress_calls>>

NextProcessor ==
    \/ \E w \in Workers : WorkerTake(w)
    \/ \E w \in Workers : WorkerProcessItem(w)
    \/ \E w \in Workers : WorkerPutResult(w)
    \/ MainNextResult
    \/ MainReturn

SpecProcessor == InitProcessor /\ [][NextProcessor]_vars

----------------------------------------------------------------------------
(* Strings are sequences of one-character strings *)

RECURSIVE SplitFrom(_, _, _)
\* str.split(sep): the pieces of s between the separators, cur the piece begun
SplitFrom(s, sep, cur) ==
    IF s = <<>> THEN <<cur>>
    ELSE IF Head(s) = sep THEN <<cur>> \o SplitFrom(Tail(s), sep, <<>>)
    ELSE SplitFrom(Tail(s), sep, Append(cur, Head(s)))

Split(s, sep) == SplitFrom(s, sep, <<>>)

\* position of the first sep in s, 0 when there is none
FirstIndex(s, sep) ==
    IF \E i \in DOMAIN s : s[i] = sep
    THEN CHOOSE i \in DOMAIN s :
             s[i] = sep /\ \A j \in DOMAIN s : s[j] = sep => i <= j
    ELSE 0

\* str.split(sep, 1): one piece without sep, else the two around the first sep
SplitOnce(s, sep) ==
    LET i == FirstIndex(s, sep)
    IN IF i = 0 THEN <<s>>
       ELSE <<SubSeq(s, 1, i - 1), SubSeq(s, i + 1, Len(s))>>

RECURSIVE Strip(_)
\* str.strip()
Strip(s) ==
    IF s = <<>> THEN s
    ELSE IF Head(s) = " " THEN Strip(Tail(s))
    ELSE IF s[Len(s)] = " " THEN Strip(SubSeq(s, 1, Len(s) - 1))
    ELSE s

LowerChar(c) ==
    CASE c = "Y" -> "y" [] c = "E" -> "e" [] c = "S" -> "s"
      [] c = "N" -> "n" [] c = "O" -> "o" [] OTHER -> c

\* str.lower()
Lower(s) == [i \in DOMAIN s |-> LowerChar(s[i])]

----------------------------------------------------------------------------
(* WebAPIClient.__init__ and the logins it tries *)

\* what the requests of the login can answer
PostkeyResults == {"ok", "ReqException", "no_post_key"}
PostResults == {"ok", "ReqException"}
CheckResults == {"logged", "not_logged", "ReqException"}
SaveResults == {"ok", "OSError"}

\* the errors pickle.load raises on bytes that are no pickle
UnpickleErrors == {"UnpicklingError", "EOFError", "ValueError"}

Jar_old == { << <<"o">>, <<"0">> >> }
Jar_new == { << <<"s">>, <<"9">> >> }

\* the cookies the login response leaves in the session
PostJars == {{}, Jar_new}

\* the file at cookies_file when the client is built
FileStates ==
    {[exists |-> FALSE]}
    \cup {[exists |-> TRUE, kind |-> "pickle", jar |-> Jar_old]}
    \cup {[exists |-> TRUE, kind |-> "garbage", err |-> e] : e \in UnpickleErrors}

\* what the user types at ' [=] Please select an option:'
Answers == { <<"n">>, <<" ", "N", "O">>, <<"Y", " ">>, <<"y", "e", "s">>,
             <<"q">> }

\* what the user types as cookies
CookieInputs ==
    { <<"a", "=", "1", ";", "b", "=", "2">>,
      <<"a", "=", "1", ";", "b", "a", "d">>,
      <<"o", "=", "7">>,
      <<>> }

BaseClient_init ==
    /\ cookies = {}
    /\ file \in FileStates

\* a plausible slip: the answer of the status request is not looked at
CheckIsLogged_Always(r) == TRUE

\* _check_is_logged, for an answer r of the status request
CheckIsLogged(r) == r = "logged"

\* a plausible slip: the cookies are pickled before the new ones are set
SaveCookies_Empty(f, jar, r) ==
    IF r = "ok" THEN [exists |-> TRUE, kind |-> "pickle", jar |-> {}] ELSE f

\* _save_cookies: the file holds the pickled cookies, unless open() fails
SaveCookies(f, jar, r) ==
    IF r = "ok" THEN [exists |-> TRUE, kind |-> "pickle", jar |-> jar] ELSE f

Removed == [exists |-> FALSE]

Ev(strategy, what, arg) == <<strategy, what, arg>>

WebClientLoginFailed == "LoginError('Web client login failed')"

\* a plausible slip: the direct login falls back to the interactive login
OnRaise_SkipLocal(strategy, e) ==
    IF e # "LoginError" THEN [pc |-> "raised", exc |-> e]
    ELSE IF strategy = "direct" THEN [pc |-> "user", exc |-> "none"]
    ELSE IF strategy = "local" THEN [pc |-> "user", exc |-> "none"]
    ELSE [pc |-> "raised", exc |-> WebClientLoginFailed]

\* a plausible slip: the last except clause does not raise
OnRaise_Swallow(strategy, e) ==
    IF e # "LoginError" THEN [pc |-> "raised", exc |-> e]
    ELSE IF strategy = "direct" THEN [pc |-> "local", exc |-> "none"]
    ELSE IF strategy = "local" THEN [pc |-> "user", exc |-> "none"]
    ELSE [pc |-> "api_init", exc |-> "none"]

\* the except clauses of WebAPIClient.__init__ and CookiesClient._login: where
\* the construction goes when strategy raises e
OnRaise(strategy, e) ==
    IF e # "LoginError" THEN [pc |-> "raised", exc |-> e]
    ELSE IF strategy = "direct" THEN [pc |-> "local", exc |-> "none"]
    ELSE IF strategy = "local" THEN [pc |-> "user", exc |-> "none"]
    ELSE [pc |-> "raised", exc |-> WebClientLoginFailed]

\* a strategy returned: the construction goes on after the try statement
OnReturn(strategy) == "api_init"

InitLogin ==
    /\ ProcessorNotStarted
    /\ BaseClient_init
    /\ lpc = "direct"
    /\ exc = "none"
    /\ inputs = 0
    /\ events = <<>>

\* a plausible slip: a failed token fetch is not raised
PostkeyFound_Always(r) == TRUE

\* _get_postkey returns the post key, unless the request failed or the page
\* holds none
PostkeyFound(r) == r = "ok"

\* AccountClient._login, _get_postkey
AccountGetPostkey ==
    /\ lpc = "direct"
    /\ \E r \in PostkeyResults :
         IF PostkeyFound(r)
         THEN /\ lpc' = "direct_post"
              /\ exc' = exc
              /\ events' = events \o <<Ev("direct", "invoke", ""),
                                       Ev("direct", "get_postkey", r)>>
         ELSE LET to == OnRaise("direct", "LoginError")
              IN /\ lpc' = to.pc
                 /\ exc' = to.exc
                 /\ events' = events \o
                        <<Ev("direct", "invoke", ""),
                          Ev("direct", "get_postkey", r),
                          Ev("direct", "LoginError", "Failed to find post key")>>
    /\ UNCHANGED <<cookies, file, inputs>>
    /\ UNCHANGED pvars

\* AccountClient._login, the login request
AccountPost ==
    /\ lpc = "direct_post"
    /\ \E r \in PostResults :
         IF r = "ok"
         THEN /\ \E jar \in PostJars : cookies' = jar
              /\ lpc' = "direct_check"
              /\ exc' = exc
              /\ events' = Append(events, Ev("direct", "post", r))
         ELSE LET to == OnRaise("direct", "LoginError")
              IN /\ lpc' = to.pc
                 /\ exc' = to.exc
                 /\ cookies' = cookies
                 /\ events' = events \o
                        <<Ev("direct", "post", r),
                          Ev("direct", "LoginError",
                             "Failed to send login request")>>
    /\ UNCHANGED <<file, inputs>>
    /\ UNCHANGED pvars

\* AccountClient._login, the check and the save
AccountCheck ==
    /\ lpc = "direct_check"
    /\ \E r \in CheckResults, sv \in SaveResults :
         IF r = "ReqException"
         THEN LET to == OnRaise("direct", r)
              IN /\ lpc' = to.pc
                 /\ exc' = to.exc
                 /\ file' = file
                 /\ events' = Append(events, Ev("direct", "check", r))
         ELSE IF CheckIsLogged(r)
         THEN /\ file' = SaveCookies(file, cookies, sv)
              /\ events' = events \o
                     <<Ev("direct", "check", r), Ev("direct", "save", sv)>>
                     \o (IF sv = "ok" THEN <<Ev("direct", "return", "")>>
                         ELSE <<>>)
              /\ IF sv = "ok"
                 THEN lpc' = OnReturn("direct") /\ exc' = exc
                 ELSE LET to == OnRaise("direct", sv)
                      IN lpc' = to.pc /\ exc' = to.exc
         ELSE LET to == OnRaise("direct", "LoginError")
              IN /\ lpc' = to.pc
                 /\ exc' = to.exc
                 /\ file' = file
                 /\ events' = events \o
                        <<Ev("direct", "check", r),
                          Ev("direct", "LoginError",
                             "Login Request is not accepted")>>
    /\ UNCHANGED <<cookies, inputs>>
    /\ UNCHANGED pvars

\* a plausible slip: the file is opened, and so created, before it is looked for
FileAfterNotFound_Created(f) ==
    [exists |-> TRUE, kind |-> "garbage", err |-> "EOFError"]

\* the file after _local_cookies_login found none
FileAfterNotFound(f) == f

\* the except clause of _local_cookies_login
UnpickleCaught(e) == e = "UnpicklingError"

\* a plausible slip: the outdated file is kept
RemoveOutdated_Keep(f) == f

\* the else branch of _local_cookies_login removes the outdated file
RemoveOutdated(f) == Removed

\* CookiesClient._local_cookies_login
LocalCookiesLogin ==
    /\ lpc = "local"
    /\ \E r \in CheckResults :
         LET inv == Ev("local", "invoke", "")
             failed == OnRaise("local", "LoginError")
         IN IF ~file.exists
            THEN /\ lpc' = failed.pc
                 /\ exc' = failed.exc
                 /\ cookies' = cookies
                 /\ file' = FileAfterNotFound(file)
                 /\ events' = events \o
                        <<inv, Ev("local", "LoginError",
                                  "Local Cookies file not found")>>
            ELSE IF file.kind = "garbage"
            THEN IF UnpickleCaught(file.err)
                 THEN /\ file' = Removed
                      /\ cookies' = cookies
                      /\ lpc' = failed.pc
                      /\ exc' = failed.exc
                      /\ events' = events \o
                             <<inv, Ev("local", "load", file.err),
                               Ev("local", "remove", ""),
                               Ev("local", "LoginError",
                                  "Login with cookies failed")>>
                 ELSE LET to == OnRaise("local", file.err)
                      IN /\ lpc' = to.pc
                         /\ exc' = to.exc
                         /\ UNCHANGED <<cookies, file>>
                         /\ events' = events \o
                                <<inv, Ev("local", "load", file.err)>>
            ELSE /\ cookies' = file.jar
                 /\ IF r = "ReqException"
                    THEN LET to == OnRaise("local", r)
                         IN /\ lpc' = to.pc
                            /\ exc' = to.exc
                            /\ file' = file
                            /\ events' = events \o
                                   <<inv, Ev("local", "load", "ok"),
                                     Ev("local", "check", r)>>
                    ELSE IF CheckIsLogged(r)
                    THEN /\ lpc' = OnReturn("local")
                         /\ exc' = exc
                         /\ file' = file
                         /\ events' = events \o
                                <<inv, Ev("local", "load", "ok"),
                                  Ev("local", "check", r),
                                  Ev("local", "return", "")>>
                    ELSE /\ file' = RemoveOutdated(file)
                         /\ lpc' = failed.pc
                         /\ exc' = failed.exc
                         /\ events' = events \o
                                <<inv, Ev("local", "load", "ok"),
                                  Ev("local", "check", r),
                                  Ev("local", "remove", ""),
                                  Ev("local", "LoginError",
                                     "Login with cookies failed")>>
    /\ UNCHANGED inputs
    /\ UNCHANGED pvars

\* CookiesClient._user_cookies_login, up to the loop
UserCookiesLoginBegin ==
    /\ lpc = "user"
    /\ lpc' = "user_prompt"
    /\ events' = Append(events, Ev("user", "invoke", ""))
    /\ UNCHANGED <<cookies, file, exc, inputs>>
    /\ UNCHANGED pvars

\* the answer as the loop reads it: "decline", "accept" or "unrecognised"
AnswerKind(raw) ==
    LET answer == Lower(Strip(raw))
    IN IF answer \in {<<"n">>, <<"n", "o">>} THEN "decline"
       ELSE IF answer \notin {<<"y">>, <<"y", "e", "s">>} THEN "unrecognised"
       ELSE "accept"

\* a plausible slip: every answer but yes ends the loop
Declines_NotYes(k) == k # "accept"

\* the answers on which the loop breaks
Declines(k) == k = "decline"

\* CookiesClient._user_cookies_login, the option prompt
UserPrompt ==
    /\ lpc = "user_prompt"
    /\ inputs < MaxInputs
    /\ inputs' = inputs + 1
    /\ \E raw \in Answers :
         LET k == AnswerKind(raw)
         IN IF Declines(k)
            THEN LET to == OnRaise("user", "LoginError")
                 IN /\ lpc' = to.pc
                    /\ exc' = to.exc
                    /\ events' = events \o
                           <<Ev("user", "input", k),
                             Ev("user", "LoginError",
                                "Failed login with user cookies")>>
            ELSE /\ lpc' = IF k = "accept" THEN "user_cookies" ELSE "user_prompt"
                 /\ exc' = exc
                 /\ events' = Append(events, Ev("user", "input", k))
    /\ UNCHANGED <<cookies, file>>
    /\ UNCHANGED pvars

\* __setitem__ of the cookie jar: one value per name
SetCookie(jar, name, value) ==
    {c \in jar : c[1] # name} \cup {<<name, value>>}

RECURSIVE AddNewCookies(_, _)
\* the loop over user_cookies.split(';'): the jar it leaves, and whether the
\* unpacking of an entry without '=' raised ValueError
AddNewCookies(jar, entries) ==
    IF entries = <<>> THEN [jar |-> jar, raised |-> FALSE]
    ELSE LET nv == SplitOnce(Head(entries), "=")
         IN IF Len(nv) # 2 THEN [jar |-> jar, raised |-> TRUE]
            ELSE AddNewCookies(SetCookie(jar, nv[1], nv[2]), Tail(entries))

RECURSIVE RemoveOldCookies(_, _)
\* the loop over the keys of the jar
RemoveOldCookies(jar, keys) ==
    IF keys = {} THEN jar
    ELSE LET k == CHOOSE x \in keys : TRUE
         IN RemoveOldCookies({c \in jar : c[1] # k}, keys \ {k})

\* CookiesClient._change_to_new_cookies
ChangeToNewCookies(jar, user_cookies) ==
    AddNewCookies(RemoveOldCookies(jar, {c[1] : c \in jar}),
                  Split(user_cookies, ";"))

\* CookiesClient._user_cookies_login, the cookies typed in
UserEnterCookies ==
    /\ lpc = "user_cookies"
    /\ inputs < MaxInputs
    /\ inputs' = inputs + 1
    /\ \E user_cookies \in CookieInputs, r \in CheckResults, sv \in SaveResults :
         LET new == ChangeToNewCookies(cookies, user_cookies)
         IN /\ cookies' = new.jar
            /\ IF new.raised
               THEN /\ lpc' = "user_prompt"
                    /\ UNCHANGED <<file, exc>>
                    /\ events' = events \o
                           <<Ev("user", "input", "cookies"),
                             Ev("user", "change_cookies", "LoginError")>>
               ELSE IF r = "ReqException"
               THEN LET to == OnRaise("user", r)
                    IN /\ lpc' = to.pc
                       /\ exc' = to.exc
                       /\ file' = file
                       /\ events' = events \o
                              <<Ev("user", "input", "cookies"),
                                Ev("user", "change_cookies", "ok"),
                                Ev("user", "check", r)>>
               ELSE IF CheckIsLogged(r)
               THEN /\ file' = SaveCookies(file, new.jar, sv)
                    /\ events' = events \o
                           <<Ev("user", "input", "cookies"),
                             Ev("user", "change_cookies", "ok"),
                             Ev("user", "check", r), Ev("user", "save", sv)>>
                           \o (IF sv = "ok" THEN <<Ev("user", "return", "")>>
                               ELSE <<>>)
                    /\ IF sv = "ok"
                       THEN lpc' = OnReturn("user") /\ exc' = exc
                       ELSE LET to == OnRaise("user", sv)
                            IN lpc' = to.pc /\ exc' = to.exc
               ELSE /\ lpc' = "user_prompt"
                    /\ UNCHANGED <<file, exc>>
                    /\ events' = events \o
                           <<Ev("user", "input", "cookies"),
                             Ev("user", "change_cookies", "ok"),
                             Ev("user", "check", r)>>
    /\ UNCHANGED pvars

\* WebAPIClient.__init__, DefaultAPIClient.__init__(self._session)
DefaultAPIClientInit ==
    /\ lpc = "api_init"
    /\ lpc' = "done"
    /\ events' = Append(events, Ev("api", "init", ""))
    /\ UNCHANGED <<cookies, file, exc, inputs>>
    /\ UNCHANGED pvars

NextLogin ==
    \/ AccountGetPostkey
    \/ AccountPost
    \/ AccountCheck
    \/ LocalCookiesLogin
    \/ UserCookiesLoginBegin
    \/ UserPrompt
    \/ UserEnterCookies
    \/ DefaultAPIClientInit

SpecLogin == InitLogin /\ [][NextLogin]_vars

----------------------------------------------------------------------------
(* Properties of the login cascade *)

HasEv(e) == \E i \in DOMAIN events : events[i] = e

Invoked(strategy) == HasEv(Ev(strategy, "invoke", ""))

Returned(strategy) == HasEv(Ev(strategy, "return", ""))

\* strategy raised LoginError
Failed(strategy) ==
    \E i \in DOMAIN events :
        events[i][1] = strategy /\ events[i][2] = "LoginError"

FailedBefore(strategy, i) ==
    \E j \in 1..(i - 1) :
        events[j][1] = strategy /\ events[j][2] = "LoginError"

SavedAfter(i) ==
    \E j \in DOMAIN events : j > i /\ events[j][2] = "save" /\ events[j][3] = "ok"

\* C3: the strategies are tried in the order direct, stored session,
\* interactive; one starts only after every earlier one raised LoginError and
\* none starts after one returned.  When the stored session succeeds there is
\* no prompt and the client holds the stored cookies; when the direct login
\* succeeds neither other strategy is invoked.
C3_CascadeOrder ==
    /\ \A i \in DOMAIN events :
         /\ events[i] = Ev("local", "invoke", "") => FailedBefore("direct", i)
         /\ events[i] = Ev("user", "invoke", "") =>
                FailedBefore("direct", i) /\ FailedBefore("local", i)
         /\ events[i][2] \in {"invoke", "input"} =>
                ~\E j \in 1..(i - 1) : events[j][2] = "return"
    /\ \A st \in {"direct", "local", "user"} :
         Cardinality({i \in DOMAIN events : events[i] = Ev(st, "invoke", "")}) <= 1
    /\ lpc = "local" => Failed("direct") /\ ~Invoked("local")
    /\ lpc \in {"user", "user_prompt", "user_cookies"} =>
          Failed("direct") /\ Failed("local")
    /\ Returned("direct") => ~Invoked("local") /\ ~Invoked("user")
    /\ Returned("local") =>
          /\ ~Invoked("user")
          /\ ~\E i \in DOMAIN events : events[i][2] = "input"
          /\ lpc \in {"api_init", "done"}
          /\ file.exists /\ file.kind = "pickle" /\ cookies = file.jar

C3_Witness ==
    /\ lpc = "done"
    /\ Failed("direct")
    /\ Returned("local")
    /\ cookies = Jar_old

UserDeclined == HasEv(Ev("user", "LoginError", "Failed login with user cookies"))

\* C4: when the direct login, the stored session and the interactive login
\* have all failed, the construction has raised LoginError('Web client login
\* failed'), no client is handed over and DefaultAPIClient.__init__ was not
\* called; and that error is raised in no other case.
C4_AllFailed ==
    /\ (Failed("direct") /\ Failed("local") /\ UserDeclined) =>
          /\ lpc = "raised"
          /\ exc = WebClientLoginFailed
          /\ ~HasEv(Ev("api", "init", ""))
          /\ \A st \in {"direct", "local", "user"} : ~Returned(st)
    /\ exc = WebClientLoginFailed =>
          Failed("direct") /\ Failed("local") /\ UserDeclined

C4_Witness ==
    /\ lpc = "raised"
    /\ exc = WebClientLoginFailed
    /\ Failed("direct") /\ Failed("local") /\ UserDeclined

\* C5: whenever the file exists and its bytes cannot be unpickled, whatever
\* the error, the stored-session login fails with LoginError, the caller sees
\* no unpickling error, and the file is gone (until a later login saves one).
C5_CorruptionSelfHeals ==
    \A i \in DOMAIN events :
        (events[i][1] = "local" /\ events[i][2] = "load" /\ events[i][3] # "ok")
        => /\ Failed("local")
           /\ exc \notin UnpickleErrors
           /\ file.exists => SavedAfter(i)

\* C6: a call of _change_to_new_cookies that fails on a malformed entry leaves
\* the session's cookies exactly as they were before the call.
C6_FailedParseKeepsCookies ==
    [][(/\ lpc = "user_cookies"
        /\ events'[Len(events')] = Ev("user", "change_cookies", "LoginError"))
       => cookies' = cookies]_vars

\* C7: every _save_cookies comes right after a login check of the same
\* strategy that returned logged-in, the file is only ever written with the
\* cookies of the session as checked, and a direct login whose check returns
\* not-logged-in raises LoginError and saves nothing.
C7_SaveOnlyWhenVerified ==
    /\ [](\A i \in DOMAIN events :
            /\ events[i][2] = "save" =>
                  i > 1 /\ events[i - 1] = Ev(events[i][1], "check", "logged")
            /\ events[i] = Ev("direct", "check", "not_logged") =>
                  /\ i < Len(events)
                  /\ events[i + 1] =
                        Ev("direct", "LoginError", "Login Request is not accepted")
                  /\ ~\E j \in DOMAIN events :
                        events[j][1] = "direct" /\ events[j][2] = "save")
    /\ [][(file' # file /\ file'.exists) =>
            /\ file' = [exists |-> TRUE, kind |-> "pickle", jar |-> cookies']
            /\ Len(events') >= 3
            /\ events'[Len(events') - 1][2] = "save"
            /\ events'[Len(events') - 1][3] = "ok"
            /\ events'[Len(events') - 2][2] = "check"
            /\ events'[Len(events') - 2][3] = "logged"]_vars

C7_Witness ==
    /\ HasEv(Ev("direct", "check", "not_logged"))
    /\ HasEv(Ev("user", "save", "ok"))
    /\ file.exists /\ file.jar = cookies /\ cookies # {}

\* C8: when the file loads and the check on the loaded cookies returns
\* not-logged-in, the stored-session login removes the file and raises
\* LoginError; it does not return, and the file is gone (until a later login
\* saves one).
C8_StaleRemoved ==
    /\ \A i \in DOMAIN events :
         events[i] = Ev("local", "check", "not_logged") =>
            /\ events[i - 1] = Ev("local", "load", "ok")
            /\ i + 2 <= Len(events)
            /\ events[i + 1] = Ev("local", "remove", "")
            /\ events[i + 2] = Ev("local", "LoginError", "Login with cookies failed")
            /\ ~Returned("local")
            /\ file.exists => SavedAfter(i)
    /\ lpc = "user" => ~file.exists

C8_Witness ==
    /\ lpc = "user"
    /\ HasEv(Ev("local", "check", "not_logged"))
    /\ ~file.exists
    /\ cookies = Jar_old

\* C9: every fault inside a strategy leaves it as LoginError, so that the only
\* exception the construction ever raises is LoginError('Web client login
\* failed').
C9_OnlyCompositeEscapes ==
    /\ lpc = "raised" => exc = WebClientLoginFailed
    /\ \A i \in DOMAIN events :
         (events[i][2] \in {"get_postkey", "post", "check", "load"}
            /\ events[i][3] \in {"ReqException", "no_post_key"} \cup UnpickleErrors)
         => \E j \in DOMAIN events :
                j > i /\ events[j][1] = events[i][1] /\ events[j][2] = "LoginError"

\* the cookies of the session were set by this event
IsCookieChange(e) ==
    \/ e[2] = "post" /\ e[3] = "ok"
    \/ e[2] = "load" /\ e[3] = "ok"
    \/ e[2] = "change_cookies"

LastEv == events[Len(events)]

\* C12: the interactive login raises its LoginError only right after the user
\* declined; after an unrecognised answer, after cookies that do not parse and
\* after cookies whose check returns not-logged-in it is at the prompt again;
\* it returns only after a check that returned logged-in and a save.
C12_InteractiveLoop ==
    /\ \A i \in DOMAIN events :
         /\ events[i] = Ev("user", "LoginError", "Failed login with user cookies")
               => events[i - 1] = Ev("user", "input", "decline")
         /\ events[i] = Ev("user", "input", "decline")
               => /\ i < Len(events)
                  /\ events[i + 1] =
                        Ev("user", "LoginError", "Failed login with user cookies")
         /\ events[i] = Ev("user", "return", "")
               => /\ events[i - 1] = Ev("user", "save", "ok")
                  /\ events[i - 2] = Ev("user", "check", "logged")
                  /\ events[i - 3] = Ev("user", "change_cookies", "ok")
    /\ (events # <<>> /\ LastEv \in {Ev("user", "input", "unrecognised"),
                                     Ev("user", "change_cookies", "LoginError"),
                                     Ev("user", "check", "not_logged")})
          => lpc = "user_prompt" /\ exc = "none"
    /\ (lpc = "raised" /\ exc = WebClientLoginFailed)
          => events[Len(events) - 1] = Ev("user", "input", "decline")
    /\ Returned("user") =>
          lpc \in {"api_init", "done"} /\ file.exists /\ file.jar = cookies

C12_Witness ==
    /\ lpc = "raised"
    /\ exc = WebClientLoginFailed
    /\ HasEv(Ev("user", "input", "unrecognised"))
    /\ HasEv(Ev("user", "change_cookies", "LoginError"))
    /\ HasEv(Ev("user", "check", "not_logged"))

\* C13: when no file exists the stored-session login raises LoginError at
\* once: no load, no check, the cookies of the session and the absence of the
\* file are as before.
C13_NotFoundTouchesNothing ==
    [][(lpc = "local" /\ ~file.exists) =>
          /\ events' = events \o
                <<Ev("local", "invoke", ""),
                  Ev("local", "LoginError", "Local Cookies file not found")>>
          /\ cookies' = cookies
          /\ ~file'.exists
          /\ lpc' = "user"
          /\ exc' = "none"]_vars

C13_Witness ==
    /\ HasEv(Ev("local", "LoginError", "Local Cookies file not found"))
    /\ lpc = "user"
    /\ cookies = Jar_new
    /\ ~file.exists

\* C16: the login request is sent only right after the post key was found;
\* when the page request fails or holds no post key the direct login raises
\* LoginError with no login request, no check and no save, the file as it was.
C16_PostkeyBeforePost ==
    /\ [](\A i \in DOMAIN events :
            /\ (events[i][1] = "direct" /\ events[i][2] = "post")
                  => i > 1 /\ events[i - 1] = Ev("direct", "get_postkey", "ok")
            /\ (events[i][2] = "get_postkey" /\ events[i][3] # "ok")
                  => /\ i < Len(events)
                     /\ events[i + 1] =
                           Ev("direct", "LoginError", "Failed to find post key")
                     /\ ~\E j \in DOMAIN events :
                           /\ events[j][1] = "direct"
                           /\ events[j][2] \in {"post", "check", "save", "return"})
    /\ [](lpc \in {"direct_post", "direct_check"}
             => HasEv(Ev("direct", "get_postkey", "ok")))
    /\ [][lpc = "direct" => file' = file /\ cookies' = cookies]_vars

C16_Witness ==
    /\ HasEv(Ev("direct", "get_postkey", "no_post_key"))
    /\ lpc = "local"
    /\ file.exists

\* C17: when the construction has gone through without error, a login check
\* was made, the last one returned logged-in, and the cookies of the session
\* were not set again after it.
C17_SessionVerified ==
    /\ [](lpc \in {"api_init", "done"} =>
            \E i \in DOMAIN events :
               /\ events[i][2] = "check" /\ events[i][3] = "logged"
               /\ \A j \in DOMAIN events :
                     j > i => events[j][2] # "check" /\ ~IsCookieChange(events[j]))
    /\ [][cookies' # cookies =>
            \E i \in DOMAIN events' :
               /\ i > Len(events)
               /\ IsCookieChange(events'[i])
               /\ \A j \in DOMAIN events' :
                     (j > i /\ events'[j][2] = "check" /\ events'[j][3] = "logged")
                        => lpc' \in {"api_init", "raised"}]_vars

C17_Witness ==
    /\ lpc = "done"
    /\ Returned("user")
    /\ HasEv(Ev("local", "check", "not_logged"))
    /\ HasEv(Ev("user", "check", "not_logged"))

\* C18: when the construction has raised LoginError('Web client login failed')
\* no file exists, whatever the file was at the start.
C18_NoFileAfterAllFailed ==
    (lpc = "raised" /\ exc = WebClientLoginFailed) => ~file.exists

C18_Witness ==
    /\ lpc = "raised"
    /\ exc = WebClientLoginFailed
    /\ HasEv(Ev("local", "check", "not_logged"))
    /\ HasEv(Ev("local", "remove", ""))
    /\ ~file.exists

\* C19: when a strategy has returned, the file exists and holds the cookies of
\* the session; a direct or interactive login wrote it, a stored-session login
\* left the file it loaded untouched.
C19_FileHoldsSession ==
    /\ [](lpc \in {"api_init", "done"} =>
            /\ file.exists
            /\ file.kind = "pickle"
            /\ file.jar = cookies
            /\ Returned("local") =>
                  ~\E i \in DOMAIN events : events[i][2] \in {"save", "remove"})
    /\ [][(lpc = "local" /\ lpc' = "api_init") => file' = file]_vars

C19_Witness ==
    /\ lpc = "done"
    /\ Returned("direct")
    /\ cookies = Jar_new
    /\ file = [exists |-> TRUE, kind |-> "pickle", jar |-> Jar_new]

----------------------------------------------------------------------------
(* Properties of _general_processor *)

Count(seq, v) == Cardinality({i \in DOMAIN seq : seq[i] = v})

\* process_item has run to its end for position p
Processed(p) ==
    /\ p < next_task
    /\ \A w \in Workers : ~(worker[w].st = "constructing" /\ worker[w].pos = p)

NProcessed(v, out) ==
    Cardinality({p \in DOMAIN item_ids :
                    item_ids[p] = v /\ outcome[p] = out /\ Processed(p)})

\* the constructor's only failure mode is ArtworkError
OnlyArtworkError == \A p \in DOMAIN outcome : outcome[p] # "ReqException"

ExpectedProgress == [k \in 1..Len(item_ids) |-> <<k, Len(item_ids)>>]

\* C1: with a constructor that fails only with ArtworkError, at every moment
\* each occurrence whose process_item has ended is in exactly one of the two
\* lists exactly once (no append is lost, whatever the interleaving), and when
\* _general_processor returns every occurrence of every id is accounted for:
\* len(successes) + len(fails) = len(ids), a duplicated id once per occurrence.
C1_Partition ==
    OnlyArtworkError =>
        /\ \A v \in ItemIds :
              /\ Count(successes, Artwork(v)) = NProcessed(v, "ok")
              /\ Count(fails, v) = NProcessed(v, "ArtworkError")
        /\ bpc = "returned" =>
              /\ Len(successes) + Len(fails) = Len(item_ids)
              /\ \A v \in ItemIds :
                    Count(successes, Artwork(v)) + Count(fails, v)
                        = Count(item_ids, v)
              /\ ret = <<successes, fails>>

C1_Witness ==
    /\ bpc = "returned"
    /\ OnlyArtworkError
    /\ Len(item_ids) = 3
    /\ item_ids[1] = item_ids[3]
    /\ outcome[1] = "ArtworkError" /\ outcome[3] = "ArtworkError"
    /\ outcome[2] = "ok"
    /\ Len(fails) = 2 /\ Len(successes) = 1

\* C2: when the call has ended, print_progress was called exactly len(ids)
\* times, the k-th call with (k, len(ids)); for empty ids never, and two empty
\* lists are returned.
C2_ProgressExact ==
    bpc # "iterating" =>
        /\ progress_calls = ExpectedProgress
        /\ bpc = "returned"
        /\ item_ids = <<>> => ret = << <<>>, <<>> >>

\* C10: an ArtworkError never aborts the batch.  Every occurrence whose
\* construction raised ArtworkError is in fails and has no artwork in
\* successes; the call ends by an exception only when some construction
\* raised something other than ArtworkError; and with ArtworkError the only
\* failure the call is never stuck before it returns, and it returns with
\* every item constructed and progress at total.
C10_ArtworkErrorContained ==
    /\ \A v \in ItemIds : Count(fails, v) = NProcessed(v, "ArtworkError")
    /\ \A v \in ItemIds : Count(successes, Artwork(v)) = NProcessed(v, "ok")
    /\ bpc = "raised" => ~OnlyArtworkError
    /\ OnlyArtworkError =>
          /\ bpc = "iterating" => ENABLED NextProcessor
          /\ bpc = "returned" =>
                /\ \A p \in DOMAIN item_ids : Processed(p)
                /\ progress_calls = ExpectedProgress

C10_Witness ==
    /\ bpc = "returned"
    /\ item_ids = <<1, 2, 1>>
    /\ outcome = <<"ok", "ArtworkError", "ok">>
    /\ fails = <<2>>
    /\ successes = <<Artwork(1), Artwork(1)>>
    /\ Len(progress_calls) = 3

\* C11: _general_processor never ends by an exception because one item's
\* construction failed, whatever the constructor raised: the failure is
\* contained and, once every result is consumed, a result is returned.
C11_ItemFailureContained ==
    /\ bpc # "raised"
    /\ (bpc = "iterating" /\ index + Len(outq) = Len(item_ids)
          /\ \A p \in DOMAIN item_ids : Processed(p))
       => ENABLED NextProcessor

\* process_item has been started, and has ended, this many times
NumDispatched == next_task - 1

NumCompleted ==
    Cardinality({w \in Workers : worker[w].st = "finished"})
    + Len(outq) + index + (IF bpc = "raised" THEN 1 ELSE 0)

Constructing(p) ==
    {w \in Workers : worker[w].st = "constructing" /\ worker[w].pos = p}

\* C14: the constructions in progress at any moment are those begun and not
\* yet ended, at most the pool size; every position handed out is held by at
\* most one pool thread, and a position is handed out once: the number of
\* process_item calls ended never exceeds the positions, and every list entry
\* comes from its own occurrence.
C14_BoundedPool ==
    /\ NumDispatched - NumCompleted
          = Cardinality({w \in Workers : worker[w].st = "constructing"})
    /\ NumDispatched - NumCompleted <= PoolSize
    /\ NumDispatched <= Len(item_ids)
    /\ \A p \in DOMAIN item_ids :
          /\ Cardinality({w \in Workers : worker[w].st # "idle"
                                           /\ worker[w].pos = p}) <= 1
          /\ p >= next_task => \A w \in Workers : worker[w].pos # p
    /\ \A v \in ItemIds :
          Count(successes, Artwork(v)) + Count(fails, v) <= Count(item_ids, v)

C14_Witness ==
    /\ Len(item_ids) = 3
    /\ \A w \in Workers : worker[w].st = "constructing"
    /\ next_task = PoolSize + 1
    /\ \A w1, w2 \in Workers : w1 # w2 => worker[w1].pos # worker[w2].pos

NExpected(v, out) ==
    Cardinality({p \in DOMAIN item_ids : item_ids[p] = v /\ outcome[p] = out})

\* C15: what is returned depends on item_ids and on what the constructor does
\* for each occurrence, not on the schedule: in every run that returns, fails
\* holds each id as often as its occurrences raised ArtworkError and successes
\* an artwork of each id as often as its occurrences were constructed; only
\* the order of the two lists is left to the schedule.
C15_MembershipDeterministic ==
    bpc = "returned" =>
        \A v \in ItemIds :
            /\ Count(ret[2], v) = NExpected(v, "ArtworkError")
            /\ Count(ret[1], Artwork(v)) = NExpected(v, "ok")

\* the completion order differs from the input order
C15_Witness ==
    /\ bpc = "returned"
    /\ item_ids = <<1, 2, 1>>
    /\ outcome = <<"ok", "ok", "ArtworkError">>
    /\ ret = << <<Artwork(2), Artwork(1)>>, <<1>> >>

\* C20: the count given to print_progress never exceeds the number of items
\* recorded in successes or fails at that moment (the lists only grow), and a
\* call with count = total finds every item recorded.
C20_ProgressBehindWork ==
    /\ [](\A k \in DOMAIN progress_calls :
             /\ progress_calls[k][1] <= Len(successes) + Len(fails)
             /\ progress_calls[k][1] = progress_calls[k][2] =>
                    Len(successes) + Len(fails) = Len(item_ids))
    /\ [][/\ Len(successes') >= Len(successes)
          /\ Len(fails') >= Len(fails)
          /\ Len(progress_calls') > Len(progress_calls) =>
                progress_calls'[Len(progress_calls')][1]
                    <= Len(successes) + Len(fails)]_vars

C20_Witness ==
    /\ Len(item_ids) = 3
    /\ Len(progress_calls) = 2
    /\ Len(successes) + Len(fails) = 2
    /\ \E w \in Workers : worker[w].st = "constructing"

====
